---- MODULE Spec2Model ----
(***************************************************************************)
(* SplitTaskAgent._run (src/agents/split_task_agent.py): the plan /        *)
(* execute / summarize generator that drives a planner Agent (main_agent)  *)
(* and an executor Agent (sub_agent).                                      *)
(*                                                                         *)
(* Texts are sequences of lexical tokens, so that json.loads is a real     *)
(* parser over them and a JSON string differs from the text it denotes.    *)
(***************************************************************************)
EXTENDS Integers, Sequences, FiniteSets, TLC

\* ------------------------------------------------------------------ bounds
\* Largest number of snapshots one Agent call's stream produces.
MaxStream == 2
MaxCalls == 2

\* ------------------------------------------------------------------ tokens
Tok(k, s) == [k |-> k, s |-> s]
P(s) == Tok("punct", s)
S(s) == Tok("str", s)
W(s) == Tok("word", s)
Num == Tok("num", "1")
Null == Tok("lit", "null")
NL == Tok("nl", "\n")

\* ------------------------------------------------------- python values
\* The values json.loads can return: list, dict, str, int, None.
PyList(items) == [t |-> "list", s |-> "", items |-> items]
\* A dict keeps its pairs in insertion order; a pair is [key, val].
Pair(k, v) == [key |-> k, val |-> v]
PyDict(pairs) == [t |-> "dict", s |-> "", items |-> pairs]
PyStr(s) == [t |-> "str", s |-> s, items |-> <<>>]
PyInt == [t |-> "int", s |-> "1", items |-> <<>>]
PyNone == [t |-> "None", s |-> "", items |-> <<>>]

\* ------------------------------------------------------------ json.loads
\* A parse result: ok, the value, and the index of the first unread token.
Fail == [ok |-> FALSE, val |-> PyNone, next |-> 0]
Got(v, n) == [ok |-> TRUE, val |-> v, next |-> n]

RECURSIVE ParseValue(_, _)
RECURSIVE ParseElems(_, _, _)
RECURSIVE ParseMembers(_, _, _)

\* Elements of an array after "[" (or after a ","): value ("," value)* "]".
ParseElems(toks, i, acc) ==
  LET v == ParseValue(toks, i) IN
  IF ~v.ok \/ v.next > Len(toks) THEN Fail
  ELSE IF toks[v.next] = P("]") THEN Got(PyList(Append(acc, v.val)), v.next + 1)
  ELSE IF toks[v.next] = P(",") THEN ParseElems(toks, v.next + 1, Append(acc, v.val))
  ELSE Fail

\* Members of an object after "{" (or after a ","): string ":" value.
ParseMembers(toks, i, acc) ==
  IF i + 1 > Len(toks) \/ toks[i].k # "str" \/ toks[i + 1] # P(":") THEN Fail
  ELSE LET v == ParseValue(toks, i + 2) IN
       IF ~v.ok \/ v.next > Len(toks) THEN Fail
       ELSE LET pairs == Append(acc, Pair(toks[i].s, v.val)) IN
            IF toks[v.next] = P("}") THEN Got(PyDict(pairs), v.next + 1)
            ELSE IF toks[v.next] = P(",") THEN ParseMembers(toks, v.next + 1, pairs)
            ELSE Fail

ParseValue(toks, i) ==
  IF i > Len(toks) THEN Fail
  ELSE LET t == toks[i] IN
    CASE t.k = "str" -> Got(PyStr(t.s), i + 1)
      [] t.k = "num" -> Got(PyInt, i + 1)
      [] t = Null -> Got(PyNone, i + 1)
      [] t = P("[") ->
           IF i + 1 <= Len(toks) /\ toks[i + 1] = P("]")
           THEN Got(PyList(<<>>), i + 2)
           ELSE ParseElems(toks, i + 1, <<>>)
      [] t = P("{") ->
           IF i + 1 <= Len(toks) /\ toks[i + 1] = P("}")
           THEN Got(PyDict(<<>>), i + 2)
           ELSE ParseMembers(toks, i + 1, <<>>)
      [] OTHER -> Fail

\* json.loads(text): one JSON value and nothing after it, else
\* JSONDecodeError.
JsonLoads(toks) ==
  LET v == ParseValue(toks, 1) IN
  IF v.ok /\ v.next = Len(toks) + 1 THEN [ok |-> TRUE, val |-> v.val]
  ELSE [ok |-> FALSE, val |-> PyNone]

\* The text a Python str holds.
StrText(s) == IF s = "" THEN <<>> ELSE <<W(s)>>


\* --------------------------------------------------------------- messages
TextContent(t) == [kind |-> "text", text |-> t, items |-> <<>>]
ListContent(items) == [kind |-> "list", text |-> <<>>, items |-> items]
ContentItem(t) == [text |-> t]
Message(role, content) == [role |-> role, content |-> content]

IsPrefix(a, b) == Len(a) <= Len(b) /\ SubSeq(b, 1, Len(a)) = a
Last(seq) == seq[Len(seq)]

RECURSIVE Flatten(_)
Flatten(seqs) == IF seqs = <<>> THEN <<>> ELSE Head(seqs) \o Flatten(Tail(seqs))

\* ----------------------------------------------------- fixed texts (l.75, l.108)
SplitInstruction == <<W("split-into-subtasks-as-json")>>
SummaryInstruction == <<W("please-summarize-not-json")>>

\* ------------------------------------------------------------ input pools
Question == <<W("analyse"), W("AAPL")>>
UserItems == Message("user", ListContent(<<ContentItem(Question)>>))
UserText == Message("user", TextContent(Question))
SystemMsg == Message("system", TextContent(<<W("sys")>>))
\* Transcripts a caller passes: item-list content, with a leading system
\* message, and plain-text content.
Inputs == { <<UserItems>>, <<SystemMsg, UserItems>>, <<UserText>> }

TaskObj(s) == <<P("{"), S("task"), P(":"), S(s), P("}")>>
Arr(body) == <<P("[")>> \o body \o <<P("]")>>
\* Texts the planner may end its plan-phase output with.
PlanTexts ==
  { <<W("sorry")>>,                                   \* prose
    <<W("~~~json")>> \o Arr(TaskObj("A")) \o <<W("~~~")>>, \* fenced JSON
    <<P("["), P("{"), S("task"), P(":"), S("A"), P("}")>>, \* truncated
    Arr(TaskObj("A")),
    Arr(TaskObj("A") \o <<P(",")>> \o TaskObj("B")),
    Arr(TaskObj("B") \o <<P(",")>> \o TaskObj("A")),
    Arr(TaskObj("")),
    Arr(<<>>),
    TaskObj("A"),                                     \* a top-level object
    <<P("{"), P("}")>>,
    <<S("A")>>, <<S("")>>, <<Num>>, <<Null>>,           \* scalars
    Arr(<<P("{"), S("other"), P(":"), S("A"), P("}")>>), \* no task field
    Arr(TaskObj("A") \o <<P(","), Num>>) }
Asst(t) == Message("assistant", TextContent(t))
ToolCall == Message("assistant", TextContent(<<W("call-tool")>>))
StructuredMsg == Message("assistant", ListContent(<<ContentItem(<<W("img")>>)>>))
\* Plan texts that also occur behind an earlier message of the same output.
MultiPlanTexts == { <<W("sorry")>>, Arr(TaskObj("A") \o <<P(",")>> \o TaskObj("B")) }

R1 == Asst(<<W("r1")>>)
R2 == Asst(<<W("r2")>>)
\* An executor answer that reports a DataTool's {"error": ...} result.
ErrResult == Asst(<<W("error:no-data")>>)
Sum1 == Asst(<<W("summary")>>)

Sum2 == Asst(<<W("summary-2")>>)
\* With two runs in flight, what the Agents answer to run 1 and to run 2
\* differs in every message.
RunSnapshots(run, phase) ==
  CASE phase = "plan" ->
         IF run = 1 THEN { <<Asst(Arr(TaskObj("A")))>>, <<Asst(<<W("sorry")>>)>> }
         ELSE { <<Asst(Arr(TaskObj("B")))>>, <<Asst(<<W("pardon")>>)>> }
    [] phase = "exec" -> IF run = 1 THEN { <<R1>> } ELSE { <<R2>> }
    [] phase = "sum" -> IF run = 1 THEN { <<Sum1>> } ELSE { <<Sum2>> }

\* The snapshots an Agent call may produce next, by phase.
Snapshots(phase) ==
  CASE phase = "plan" ->
         { <<>>, <<StructuredMsg>> }
         \cup { <<Asst(t)>> : t \in PlanTexts }
         \cup { <<ToolCall, Asst(t)>> : t \in MultiPlanTexts }
    [] phase = "exec" -> { <<>>, <<R1>>, <<R2>>, <<R1, R2>>, <<StructuredMsg>>,
                          <<ErrResult>> }
    [] phase = "sum" -> { <<>>, <<Sum1>>, <<ToolCall>>, <<ToolCall, Sum1>> }


\* ------------------------------------------------------------------ state
VARIABLES
  messages,          \* the caller's list object (l.66)
  messages0,         \* its value when run was called
  new_messages,      \* l.73
  sharing,           \* what new_messages shares with messages
  response,          \* l.76
  chunk,             \* the loop variable of l.77, l.99, l.111
  chunkBound,        \* whether chunk has been assigned
  sub_tasks,         \* l.85, as iterated by l.95
  taskIdx,           \* index of the sub-task being executed
  sub_task_results,  \* l.94
  pc,                \* where the generator is suspended
  error,             \* the exception that ended the run, "" if none
  plannerCalls,      \* transcripts passed to main_agent.run, in order
  executorCalls,     \* transcripts passed to sub_agent.run, in order
  inProgress,        \* Agent calls started and not yet ended
  nSnap,             \* snapshots produced so far by the call being consumed
  emitCount,         \* number of snapshots yielded to the caller
  lastEmit,          \* the last one
  prevEmit,          \* the one before
  finals,            \* final snapshot of every completed Agent call
  streamsMonotone,   \* every Agent stream so far grew by append only
  faulted,           \* an Agent call has raised
  cur,               \* the run whose frame the variables above hold
  other,             \* the suspended frame of a second run of the same
                     \* orchestrator, if there is one
  tools,             \* the DataTool instances, by tool name
  latest,            \* the latest call of a DataTool's execute
  nCalls,            \* how many calls of execute there have been
  requested          \* the consumer has asked the generator for its next
                     \* snapshot and the generator has not yet yielded

vars == <<messages, messages0, new_messages, sharing, response, chunk, chunkBound,
          sub_tasks, taskIdx, sub_task_results, pc, error, plannerCalls,
          executorCalls, inProgress, nSnap, emitCount, lastEmit, prevEmit,
          finals, streamsMonotone, faulted, cur, other, tools, latest, nCalls,
          requested>>
runVars == <<messages, messages0, new_messages, sharing, response, chunk, chunkBound,
             sub_tasks, taskIdx, sub_task_results, pc, error, plannerCalls,
             executorCalls, inProgress, nSnap, emitCount, lastEmit, prevEmit,
             finals, streamsMonotone, faulted, cur, other, requested>>

\* -------------------------------------------------------------- DataTools
\* os.getenv: the value of a variable of the environment, None if unset.
Unset == "None"
EnvNames == {"NEWS_API_KEY", "SERP_API_KEY", "SERPAPI_API_KEY"}
Envs == SUBSET EnvNames
Getenv(env, name) == IF name \in env THEN "secret" ELSE Unset
Truthy(v) == v \notin {Unset, ""}

USTools == {"get_historical_data", "get_stock_info", "calculate_technical_indicators",
            "get_financial_statements", "get_news", "search_web_info"}
ZHTools == {"get_zh_historical_data", "get_zh_stock_info",
            "calculate_zh_technical_indicators", "get_zh_financial_statements",
            "get_stock_news", "get_zh_market_data"}
ToolNames == USTools \cup ZHTools

\* The "required" list of each tool's input schema.
Required(t) ==
  CASE t \in {"get_historical_data", "calculate_technical_indicators"} ->
         <<"ticker", "start_date", "end_date">>
    [] t \in {"get_stock_info", "get_financial_statements", "get_news"} -> <<"ticker">>
    [] t = "search_web_info" -> <<"query">>
    [] t \in {"get_zh_historical_data", "calculate_zh_technical_indicators"} ->
         <<"code", "start_date", "end_date">>
    [] t \in {"get_zh_stock_info", "get_zh_financial_statements"} -> <<"code">>
    [] t = "get_stock_news" -> <<"symbol">>
    [] t = "get_zh_market_data" -> <<"data_type">>

\* MCPBaseTool.__init__ / ZHMCPBaseTool.__init__ (l.16-19).
BaseInit(name, description, input_schema) ==
  [name |-> name, description |-> description, input_schema |-> input_schema]

\* The instances after construction: every tool through the base __init__,
\* the news tool and the web search tool with the API keys they read from
\* the environment.
Construct(env) ==
  [t \in ToolNames |->
     LET base == BaseInit(t, <<"description of", t>>, [required |-> Required(t)])
     IN  CASE t = "get_news" ->
                [name |-> base.name, description |-> base.description,
                 input_schema |-> base.input_schema,
                 news_api_key |-> Getenv(env, "NEWS_API_KEY")]
           [] t = "search_web_info" ->
                [name |-> base.name, description |-> base.description,
                 input_schema |-> base.input_schema,
                 serp_api_key |-> Getenv(env, "SERP_API_KEY"),
                 serpapi_api_key |-> Getenv(env, "SERPAPI_API_KEY")]
           [] OTHER -> base]

\* What an upstream provider call does: it raises, it returns an empty
\* dataset, it returns data of the expected schema ("good"), or data whose
\* fields are missing or of another type ("bad").  Info fields of the US
\* stock info tool are handed on as they come: "array" is a value that is a
\* numpy array, "opaque" a value of a type _json_serializable does not know.
Up == {"raises", "empty", "good", "bad"}
UpPlain == {"raises", "empty", "good"}
UpInfo == Up \cup {"array", "opaque"}
Clock == {1, 2}

\* What execute does: it raises, or it returns a mapping, of which the
\* model keeps the top-level keys, the keys whose value is an error mapping,
\* whether it is JSON-serializable, the clock reading it carries (0: none)
\* and the source it names ("": none).
Raises ==
  [raised |-> TRUE, keys |-> {}, nested |-> {}, serializable |-> TRUE,
   stamp |-> 0, source |-> "", message |-> "", consulted |-> <<>>]
Payload(keys, nested, values, stamp, source) ==
  [keys |-> keys, nested |-> nested, values |-> values, stamp |-> stamp,
   source |-> source]

\* _error_response (l.34-36).
ErrorResponse ==
  [raised |-> FALSE, keys |-> {"error"}, nested |-> {}, serializable |-> TRUE,
   stamp |-> 0, source |-> "", message |-> "", consulted |-> <<>>]

\* _json_serializable (l.38-60; zh l.38-57): "raises" on an array (pd.isna
\* of an array has no truth value), hands an unknown type on as it is.
JsonSerializable(data) ==
  CASE data.values = "array" -> "raises"
    [] data.values = "opaque" -> "as it is"
    [] OTHER -> "converted"

\* _success_response (l.25-32).
SuccessResponse(data) ==
  IF JsonSerializable(data) = "raises" THEN ErrorResponse
  ELSE [raised |-> FALSE, keys |-> data.keys, nested |-> data.nested,
        serializable |-> JsonSerializable(data) = "converted",
        stamp |-> data.stamp, source |-> data.source, message |-> "",
        consulted |-> <<>>]

\* BaseTool._error_response (base_tool.py l.34-36) with the text it is given.
ErrorMessage(message) == [ErrorResponse EXCEPT !.message = message]

\* MCPHistoricalDataTool.execute (l.50-97): all of it in one try.
HistoricalData(up) ==
  IF up \in {"raises", "empty", "bad"} THEN ErrorResponse
  ELSE SuccessResponse(Payload({"ticker", "period_summary", "recent_data"},
                               {}, "plain", 0, ""))

\* MCPStockInfoTool.execute (l.35-93): the fields of info that are there
\* are copied; the three statistics are added only if there is one.
StockInfo(up) ==
  CASE up \in {"raises", "bad"} -> ErrorResponse
    [] up = "empty" -> SuccessResponse(Payload({}, {}, "plain", 0, ""))
    [] OTHER ->
         SuccessResponse(Payload({"symbol", "data_timestamp", "currency", "exchange"},
                                 {}, IF up = "good" THEN "plain" ELSE up, 0, ""))

\* MCPTechnicalAnalysisTool.execute (l.77-261); "empty": fewer than 20 rows.
TechnicalAnalysis(up) ==
  IF up \in {"raises", "empty", "bad"} THEN ErrorResponse
  ELSE SuccessResponse(Payload({"ticker", "calculation_period", "indicators",
                                "current_analysis"}, {}, "plain", 0, ""))

\* MCPFinancialStatementsTool.execute (l.128-214).
FinancialStatements(up) ==
  IF up \in {"raises", "empty", "bad"} THEN ErrorResponse
  ELSE SuccessResponse(Payload({"ticker", "statements", "metadata",
                                "calculated_ratios"}, {}, "plain", 0, ""))

\* What a news or search helper returns: None, or a mapping with its source
\* and its items ("odd": items with a field that is not a string).
NoData == [source |-> "None", items |-> "none"]
Found(source, items) == [source |-> source, items |-> items]

\* MCPNewsTool._get_yfinance_news (l.38-68): title.strip() is inside the try.
GetYfinanceNews(up) ==
  CASE up \in {"raises", "bad"} -> NoData
    [] up = "empty" -> Found("Yahoo Finance", "none")
    [] OTHER -> Found("Yahoo Finance", "items")

\* MCPNewsTool._get_gnews_fallback (l.116-170): the description is taken as
\* it comes.
GetGnewsFallback(up) ==
  CASE up = "raises" -> NoData
    [] up = "empty" -> Found("Google News", "none")
    [] up = "bad" -> Found("Google News", "odd")
    [] OTHER -> Found("Google News", "items")

\* The two texts MCPNewsTool.execute gives _error_response (l.200, l.203):
\* "no news source returned data" and "no news found about <ticker>".
NoNewsSource == "no data from any news source"
NoNewsFound == "no news found about ticker"

\* MCPNewsTool.execute (l.172-256): no try; description.upper() at l.222.
\* consulted lists the helpers the call went through (l.191-197); it is not
\* a key of the returned mapping.
News(yf, gn) ==
  LET first == GetYfinanceNews(yf)
      again == first = NoData \/ first.items = "none"
      news_data == IF again THEN GetGnewsFallback(gn) ELSE first
      result ==
        CASE news_data = NoData -> ErrorMessage(NoNewsSource)
          [] news_data.items = "none" -> ErrorMessage(NoNewsFound)
          [] news_data.items = "odd" -> Raises
          [] OTHER ->
               SuccessResponse(Payload({"ticker", "source", "total_count", "news",
                                        "metadata"}, {}, "plain", 0, news_data.source))
  IN  [result EXCEPT !.consulted =
         IF again THEN <<"_get_yfinance_news", "_get_gnews_fallback">>
         ELSE <<"_get_yfinance_news">>]

\* MCPWebSearchTool._search_with_serpapi (l.39-103).
SearchWithSerpapi_EmptyIsNone(self, up) ==
  LET api_key == IF Truthy(self.serpapi_api_key) THEN self.serpapi_api_key
                 ELSE self.serp_api_key
  IN  CASE ~Truthy(api_key) -> NoData
        [] up \in {"raises", "empty"} -> NoData
        [] up = "bad" -> Found("Google (via SerpAPI)", "odd")
        [] OTHER -> Found("Google (via SerpAPI)", "items")

SearchWithSerpapi(self, up) ==
  LET api_key == IF Truthy(self.serpapi_api_key) THEN self.serpapi_api_key
                 ELSE self.serp_api_key
  IN  CASE ~Truthy(api_key) -> NoData
        [] up = "raises" -> NoData
        [] up = "empty" -> Found("Google (via SerpAPI)", "none")
        [] up = "bad" -> Found("Google (via SerpAPI)", "odd")
        [] OTHER -> Found("Google (via SerpAPI)", "items")

\* MCPWebSearchTool._search_with_duckduckgo (l.105-139).
SearchWithDuckduckgo(up) ==
  CASE up = "raises" -> NoData
    [] up = "empty" -> Found("DuckDuckGo", "none")
    [] up = "bad" -> Found("DuckDuckGo", "odd")
    [] OTHER -> Found("DuckDuckGo", "items")

\* The text MCPWebSearchTool.execute gives _error_response (l.232-234).
SearchFailed == "search failed"

\* MCPWebSearchTool.execute (l.213-252): no try; for a financial query
\* _enhance_financial_search (l.141-211) calls lower() on every title and
\* snippet.
WebSearch(self, financial, serp, ddg) ==
  LET keyed == Truthy(self.serp_api_key) \/ Truthy(self.serpapi_api_key)
      first == IF keyed THEN SearchWithSerpapi(self, serp) ELSE NoData
      search_results == IF first = NoData THEN SearchWithDuckduckgo(ddg) ELSE first
      result ==
        CASE search_results = NoData -> ErrorMessage(SearchFailed)
          [] financial /\ search_results.items = "odd" -> Raises
          [] OTHER ->
               SuccessResponse(
                 Payload({"query", "search_engine", "total_results", "results",
                          "metadata"}
                           \cup (IF financial THEN {"enhanced_for_finance"} ELSE {}),
                         {}, "plain", 0, search_results.source))
  IN  [result EXCEPT !.consulted =
         (IF keyed THEN <<"_search_with_serpapi">> ELSE <<>>)
           \o (IF first = NoData THEN <<"_search_with_duckduckgo">> ELSE <<>>)]

\* ZHMCPFinancialStatementsTool.execute (l.40-69): the provider call has a
\* try of its own, whose handler stores the error under income_statement.
ZHFinancialStatements(up, now) ==
  SuccessResponse(
    Payload({"stock_code", "data_source", "query_time"}
              \cup (CASE up = "raises" -> {"income_statement"}
                      [] up = "empty" -> {}
                      [] OTHER -> {"data"}),
            IF up = "raises" THEN {"income_statement"} ELSE {}, "plain", now, ""))

\* ZHMCPHistoricalDataTool.execute (l.55-150).
ZHHistoricalData(up) ==
  IF up \in {"raises", "empty", "bad"} THEN ErrorResponse
  ELSE SuccessResponse(Payload({"stock_code", "adjust_type", "period", "data",
                                "statistics"}, {}, "plain", 0, ""))

\* ZHMCPMarketTool._get_index_data (l.76-118): rows that cannot be read are
\* skipped; _generate_market_summary (l.251-270) reads change_percent, which
\* no index item has, whenever there is an item.  TRUE: an error mapping.
GetIndexData(up) == up \in {"raises", "good"}

\* _get_sector_data (l.121-153), _get_top_list_data (l.155-209),
\* _get_money_flow_data (l.211-249).  TRUE: an error mapping.
GetRankedData(up) == up \in {"raises", "empty", "bad"}

\* ZHMCPMarketTool.execute (l.48-74).
ZHMarket(data_type, up, now) ==
  LET failed == IF data_type \in {"sector", "top_list", "money_flow"}
                THEN GetRankedData(up) ELSE GetIndexData(up)
  IN  SuccessResponse(Payload({"data_type", "limit", "query_time", "data"},
                              IF failed THEN {"data"} ELSE {}, "plain", now, ""))

\* ZHMCPNewsTool.execute (l.45-88).
ZHNews(up, now) ==
  IF up = "raises" THEN ErrorResponse
  ELSE SuccessResponse(Payload({"symbol", "limit", "query_time", "news", "news_count"},
                               {}, "plain", now, ""))

\* ZHMCPStockInfoTool.execute (l.54-172): one part of the result for each of
\* three provider calls, each in a try of its own.
InfoPart(key, up) == IF up = "empty" THEN {} ELSE {key}
ZHStockInfo(realtime, info, financial, now) ==
  SuccessResponse(
    Payload({"metadata"} \cup InfoPart("realtime_data", realtime)
              \cup InfoPart("company_info", info)
              \cup InfoPart("financial_indicators", financial),
            (IF realtime = "raises" THEN {"realtime_data"} ELSE {})
              \cup (IF info = "raises" THEN {"company_info"} ELSE {})
              \cup (IF financial = "raises" THEN {"financial_indicators"} ELSE {}),
            "plain", now, ""))

\* ZHMCPTechnicalAnalysisTool.execute (l.90-179).
ZHTechnicalAnalysis(up) ==
  IF up \in {"raises", "empty", "bad"} THEN ErrorResponse
  ELSE SuccessResponse(Payload({"stock_code", "period", "calculated_indicators",
                                "indicators_data", "technical_summary",
                                "latest_values", "data_points"}, {}, "plain", 0, ""))

\* A call of execute: the tool, its parameters, what the providers did, the
\* clock reading the tool took (0: none) and the result.
NoCall == [tool |-> "none"]
NoToolCall == UNCHANGED <<tools, latest, nCalls>>

\* execute of an instance that keeps a per-call cache: the API keys are
\* dropped once used.
AfterExecute_DropKeys(self) ==
  IF "serpapi_api_key" \in DOMAIN self
  THEN [self EXCEPT !.serpapi_api_key = Unset, !.serp_api_key = Unset]
  ELSE self

\* No execute, and no helper it calls, assigns an attribute of self.
AfterExecute(self) == self

\* ------------------------------------------------- helpers of _run's body
\* messages copied by reference: new_messages is the caller's list.
DeepCopy_Alias(msgs) == [val |-> msgs, sharing |-> "list"]

\* l.73 copy.deepcopy(messages): the copy shares nothing with the caller's
\* list ("none"); "elements" is a copy whose message objects are shared,
\* "list" is the same list object.
DeepCopy(msgs) == [val |-> msgs, sharing |-> "none"]

\* l.74-75 new_messages[-1]['content'].append(ContentItem(text=...)), for
\* a last message whose content is a list.
AppendInstruction(msgs) ==
  [msgs EXCEPT ![Len(msgs)].content.items = Append(@, ContentItem(SplitInstruction))]

\* The direct response as the whole accumulated list instead of one message.
FallbackEmission_Whole(resp) == resp

\* l.89 the direct-response emission.
FallbackEmission(resp) == <<Message("assistant", Last(resp).content)>>

\* l.95 `for sub_task in sub_tasks`: what iterating the parsed value gives.
\* A dict yields its keys, a str its characters (the pool's string
\* literals are one character long or empty), int and None are not
\* iterable.
Iterate(v) ==
  CASE v.t = "list" -> [ok |-> TRUE, items |-> v.items]
    [] v.t = "dict" -> [ok |-> TRUE,
                        items |-> [i \in 1..Len(v.items) |-> PyStr(v.items[i].key)]]
    [] v.t = "str" -> [ok |-> TRUE, items |-> IF v.s = "" THEN <<>> ELSE <<PyStr(v.s)>>]
    [] OTHER -> [ok |-> FALSE, items |-> <<>>]

\* l.96 sub_task['task'].
Subscript(v, key) ==
  IF v.t = "dict"
  THEN LET idx == { i \in 1..Len(v.items) : v.items[i].key = key } IN
       IF idx = {} THEN [err |-> "KeyError", val |-> PyNone]
       ELSE [err |-> "", val |-> v.items[CHOOSE i \in idx : \A j \in idx : j <= i].val]
  ELSE [err |-> "TypeError", val |-> PyNone]

\* The sub-task transcript built on top of the run's conversation.
SubMessages_WithConversation(task) ==
  new_messages \o <<Message("user", TextContent(StrText(task.s)))>>

\* l.97 sub_messages = [Message(role='user', content=sub_task['task'])].
SubMessages(task) == <<Message("user", TextContent(StrText(task.s)))>>

\* l.108 "\n".join(sub_task_results), for results that are all str.
RECURSIVE Join(_)
Join(results) ==
  IF results = <<>> THEN <<>>
  ELSE IF Len(results) = 1 THEN results[1].text
  ELSE results[1].text \o <<NL>> \o Join(Tail(results))

\* The summary request appended to the conversation and the plan.
SummaryMessages_WithConversation(results) ==
  new_messages \o <<Message("user", TextContent(SummaryInstruction \o Join(results)))>>

\* l.108-109 summary_messages.
SummaryMessages(results) ==
  <<Message("user", TextContent(SummaryInstruction \o Join(results)))>>

\* A try/except around the Agent loop that logs the exception and goes on.
Propagate_Swallowed(phase, err) == [pc |-> phase, error |-> err, call |-> <<>>]

\* An exception leaves the generator: it reaches the caller, the run is over.
Propagate(phase, err) == [pc |-> "raised", error |-> err, call |-> <<>>]

\* The loop walking the parsed list from its end.
Advance_Reversed(items, k, results) ==
  IF k <= Len(items)
  THEN LET t == Subscript(items[Len(items) - k + 1], "task") IN
       IF t.err # "" THEN Propagate("exec", t.err)
       ELSE IF t.val.t # "str" THEN Propagate("exec", "ValidationError")
       ELSE [pc |-> "exec", error |-> "", call |-> SubMessages(t.val)]
  ELSE IF \E i \in 1..Len(results) : results[i].kind # "text"
       THEN Propagate("sum", "TypeError")
       ELSE [pc |-> "sum", error |-> "", call |-> SummaryMessages(results)]

\* The exhausted loop handing the summary request to the plan-phase loop
\* of l.77, whose output is parsed again.
Advance_Replan(items, k, results) ==
  IF k <= Len(items)
  THEN LET t == Subscript(items[k], "task") IN
       IF t.err # "" THEN Propagate("exec", t.err)
       ELSE IF t.val.t # "str" THEN Propagate("exec", "ValidationError")
       ELSE [pc |-> "exec", error |-> "", call |-> SubMessages(t.val)]
  ELSE IF \E i \in 1..Len(results) : results[i].kind # "text"
       THEN Propagate("sum", "TypeError")
       ELSE [pc |-> "plan", error |-> "", call |-> SummaryMessages(results)]

\* A plan without sub-tasks ending the run with nothing to summarize.
Advance_SkipEmptySummary(items, k, results) ==
  IF items = <<>> THEN [pc |-> "done", error |-> "", call |-> <<>>]
  ELSE IF k <= Len(items)
  THEN LET t == Subscript(items[k], "task") IN
       IF t.err # "" THEN Propagate("exec", t.err)
       ELSE IF t.val.t # "str" THEN Propagate("exec", "ValidationError")
       ELSE [pc |-> "exec", error |-> "", call |-> SubMessages(t.val)]
  ELSE IF \E i \in 1..Len(results) : results[i].kind # "text"
       THEN Propagate("sum", "TypeError")
       ELSE [pc |-> "sum", error |-> "", call |-> SummaryMessages(results)]

\* The loop giving up when a recorded result reports a tool error.
Advance_AbortOnError(items, k, results) ==
  IF \E i \in 1..Len(results) : results[i] = ErrResult.content
  THEN Propagate("exec", "ToolError")
  ELSE IF k <= Len(items)
  THEN LET t == Subscript(items[k], "task") IN
       IF t.err # "" THEN Propagate("exec", t.err)
       ELSE IF t.val.t # "str" THEN Propagate("exec", "ValidationError")
       ELSE [pc |-> "exec", error |-> "", call |-> SubMessages(t.val)]
  ELSE IF \E i \in 1..Len(results) : results[i].kind # "text"
       THEN Propagate("sum", "TypeError")
       ELSE [pc |-> "sum", error |-> "", call |-> SummaryMessages(results)]

\* The loop leaving out the last element of the list.
Advance_OffByOne(items, k, results) ==
  IF k < Len(items)
  THEN LET t == Subscript(items[k], "task") IN
       IF t.err # "" THEN Propagate("exec", t.err)
       ELSE IF t.val.t # "str" THEN Propagate("exec", "ValidationError")
       ELSE [pc |-> "exec", error |-> "", call |-> SubMessages(t.val)]
  ELSE IF \E i \in 1..Len(results) : results[i].kind # "text"
       THEN Propagate("sum", "TypeError")
       ELSE [pc |-> "sum", error |-> "", call |-> SummaryMessages(results)]

\* l.95-99 and l.107-111: the loop header at item k. The next Agent call is
\* the executor on item k, or the planner on the summary once the items
\* are exhausted; building either transcript may raise.
Advance(items, k, results) ==
  IF k <= Len(items)
  THEN LET t == Subscript(items[k], "task") IN
       IF t.err # "" THEN Propagate("exec", t.err)
       ELSE IF t.val.t # "str" THEN Propagate("exec", "ValidationError")
       ELSE [pc |-> "exec", error |-> "", call |-> SubMessages(t.val)]
  ELSE IF \E i \in 1..Len(results) : results[i].kind # "text"
       THEN Propagate("sum", "TypeError")
       ELSE [pc |-> "sum", error |-> "", call |-> SummaryMessages(results)]

\* The frame of a run: the locals of its generator and what is recorded
\* about it.
Frame ==
  [messages |-> messages, messages0 |-> messages0, new_messages |-> new_messages,
   sharing |-> sharing, response |-> response, chunk |-> chunk,
   chunkBound |-> chunkBound, sub_tasks |-> sub_tasks, taskIdx |-> taskIdx,
   sub_task_results |-> sub_task_results, pc |-> pc, error |-> error,
   plannerCalls |-> plannerCalls, executorCalls |-> executorCalls,
   inProgress |-> inProgress, nSnap |-> nSnap, emitCount |-> emitCount,
   lastEmit |-> lastEmit, prevEmit |-> prevEmit, finals |-> finals,
   streamsMonotone |-> streamsMonotone, faulted |-> faulted,
   requested |-> requested]
\* The frame of a run that was called with msgs and has not started.
InitFrame(msgs) ==
  [messages |-> msgs, messages0 |-> msgs, new_messages |-> <<>>,
   sharing |-> "none", response |-> <<>>, chunk |-> <<>>,
   chunkBound |-> FALSE, sub_tasks |-> PyNone, taskIdx |-> 0,
   sub_task_results |-> <<>>, pc |-> "start", error |-> "",
   plannerCalls |-> <<>>, executorCalls |-> <<>>,
   inProgress |-> {}, nSnap |-> 0, emitCount |-> 0,
   lastEmit |-> <<>>, prevEmit |-> <<>>, finals |-> <<>>,
   streamsMonotone |-> TRUE, faulted |-> FALSE, requested |-> FALSE]
NoFrame == [InitFrame(<<>>) EXCEPT !.pc = "absent"]
TwoRuns == other.pc # "absent"
Solo == UNCHANGED <<cur, other>>

\* A name bound in _run's body (l.76 response, l.94 sub_task_results) as
\* an attribute of the orchestrator: a resumed run finds what the other
\* run left there.
FrameLocal_OnSelf(own, left) == left

\* l.76, l.94: response and sub_task_results are locals of the generator:
\* a resumed run finds its own value, whatever the other run left.
FrameLocal(own, left) == own

\* l.50, l.57, l.77, l.99, l.111: every run calls self.main_agent and
\* self.sub_agent, the two instances made once by __init__.
AgentInstance(run, role) == role

Call(agent, n) == [agent |-> agent, n |-> n]
\* The Agent call whose stream the current for loop consumes.
CurCall == IF pc = "exec" THEN Call("executor", Len(executorCalls))
           ELSE Call("planner", Len(plannerCalls))

\* A loop body that hands over a snapshot only if it differs from the one
\* handed over before.
Emit_Dedup(e) ==
  IF e = lastEmit THEN UNCHANGED <<emitCount, lastEmit, prevEmit>>
  ELSE /\ emitCount' = emitCount + 1
       /\ prevEmit' = lastEmit
       /\ lastEmit' = e

Emit(e) == /\ emitCount' = emitCount + 1
           /\ prevEmit' = lastEmit
           /\ lastEmit' = e
NoEmit == UNCHANGED <<emitCount, lastEmit, prevEmit>>

\* A generator that does not wait for its consumer: after handing over a
\* snapshot it goes on with the stream and the calls that follow.
Handover_Eager == requested' = (pc' \notin {"done", "raised"})

\* yield (l.78, l.89, l.101, l.112) suspends the generator until the
\* consumer asks again, return and an exception end it; otherwise the
\* body runs on within the same request, waiting for an Agent's snapshot.
Handover == requested' = (pc' \in {"plan", "exec", "sum"} /\ nSnap' = 0)

Init ==
  /\ messages \in Inputs
  /\ messages0 = messages
  /\ new_messages = <<>>
  /\ sharing = "none"
  /\ response = <<>>
  /\ chunk = <<>>
  /\ chunkBound = FALSE
  /\ sub_tasks = PyNone
  /\ taskIdx = 0
  /\ sub_task_results = <<>>
  /\ pc = "start"
  /\ error = ""
  /\ plannerCalls = <<>>
  /\ executorCalls = <<>>
  /\ inProgress = {}
  /\ nSnap = 0
  /\ emitCount = 0
  /\ lastEmit = <<>>
  /\ prevEmit = <<>>
  /\ finals = <<>>
  /\ streamsMonotone = TRUE
  /\ faulted = FALSE
  /\ cur = 1
  /\ other = NoFrame
  /\ tools = Construct({})
  /\ latest = NoCall
  /\ nCalls = 0
  /\ requested = FALSE

\* The run ends with exception r.error.
Raise(r) == /\ pc' = r.pc
            /\ error' = r.error

\* l.70-77: the first request of the consumer enters the body: copy the
\* transcript, append the instruction, call the planner.
Start ==
  /\ pc = "start"
  /\ Solo
  /\ NoToolCall
  /\ requested
  /\ LET c == DeepCopy(messages) IN
     IF Last(c.val).content.kind # "list"
     THEN \* str has no append
          /\ Raise(Propagate("plan", "AttributeError"))
          /\ new_messages' = c.val
          /\ sharing' = c.sharing
          /\ UNCHANGED <<messages, response, plannerCalls, inProgress>>
     ELSE /\ new_messages' = AppendInstruction(c.val)
          /\ sharing' = c.sharing
          /\ messages' = IF c.sharing = "none" THEN messages
                         ELSE AppendInstruction(messages)
          /\ response' = <<>>
          /\ plannerCalls' = Append(plannerCalls, new_messages')
          /\ inProgress' = inProgress \cup {Call("planner", 1)}
          /\ pc' = "plan"
          /\ error' = ""
  /\ NoEmit
  /\ UNCHANGED <<messages0, chunk, chunkBound, sub_tasks, taskIdx, sub_task_results,
                 executorCalls, nSnap, finals, streamsMonotone, faulted>>
  /\ Handover

\* l.77-78, l.99-101, l.111-112: the Agent call produces its next snapshot
\* and the loop body yields response + chunk.
AgentYield ==
  /\ pc \in {"plan", "exec", "sum"}
  /\ nSnap < MaxStream
  /\ Solo
  /\ NoToolCall
  /\ requested
  /\ \E snap \in (IF TwoRuns THEN RunSnapshots(cur, pc) ELSE Snapshots(pc)) :
       /\ chunk' = snap
       /\ Emit(response \o snap)
       /\ streamsMonotone' = (streamsMonotone /\ (nSnap = 0 \/ IsPrefix(chunk, snap)))
  /\ chunkBound' = TRUE
  /\ nSnap' = nSnap + 1
  /\ UNCHANGED <<messages, messages0, new_messages, sharing, response, sub_tasks,
                 taskIdx, sub_task_results, pc, error, plannerCalls, executorCalls,
                 inProgress, finals, faulted>>
  /\ Handover

\* The Agent call raises instead of producing a snapshot: nothing in _run
\* catches it.
AgentRaise ==
  /\ pc \in {"plan", "exec", "sum"}
  /\ Solo
  /\ NoToolCall
  /\ requested
  /\ Raise(Propagate(pc, "AgentError"))
  /\ faulted' = TRUE
  /\ inProgress' = inProgress \ {CurCall}
  /\ NoEmit
  /\ UNCHANGED <<messages, messages0, new_messages, sharing, response, chunk,
                 chunkBound, sub_tasks, taskIdx, sub_task_results, plannerCalls,
                 executorCalls, nSnap, finals, streamsMonotone>>
  /\ Handover

\* Start the Agent call Advance chose, or end the run with its exception.
Dispatch(a, k) ==
  /\ pc' = a.pc
  /\ error' = a.error
  /\ taskIdx' = k
  /\ nSnap' = 0
  /\ executorCalls' = IF a.pc = "exec" THEN Append(executorCalls, a.call)
                      ELSE executorCalls
  /\ plannerCalls' = IF a.pc \in {"sum", "plan"} THEN Append(plannerCalls, a.call)
                     ELSE plannerCalls
  /\ inProgress' = (inProgress \ {CurCall}) \cup
         (CASE a.pc = "exec" -> {Call("executor", Len(executorCalls'))}
            [] a.pc \in {"sum", "plan"} -> {Call("planner", Len(plannerCalls'))}
            [] OTHER -> {})

\* l.79-97: the planner's stream is exhausted: accumulate, parse, and either
\* yield the direct response or enter the sub-task loop.
PlanEnd ==
  /\ pc = "plan"
  /\ Solo
  /\ NoToolCall
  /\ requested
  /\ finals' = Append(finals, IF nSnap = 0 THEN <<>> ELSE chunk)
  /\ UNCHANGED <<messages0, sharing, chunk, chunkBound, streamsMonotone, faulted>>
  /\ IF ~chunkBound
     THEN \* l.79 chunk was never assigned: UnboundLocalError
          /\ Raise(Propagate("plan", "UnboundLocalError"))
          /\ inProgress' = inProgress \ {CurCall}
          /\ NoEmit
          /\ UNCHANGED <<messages, new_messages, response, sub_tasks, taskIdx,
                         sub_task_results, plannerCalls, executorCalls, nSnap>>
     ELSE
       /\ response' = response \o chunk
       /\ new_messages' = new_messages \o chunk
       /\ messages' = IF sharing = "list" THEN messages \o chunk ELSE messages
       /\ IF response' = <<>>
          THEN \* l.81 response[-1] of an empty list
               /\ Raise(Propagate("plan", "IndexError"))
               /\ inProgress' = inProgress \ {CurCall}
               /\ NoEmit
               /\ UNCHANGED <<sub_tasks, taskIdx, sub_task_results, plannerCalls,
                              executorCalls, nSnap>>
          ELSE IF Last(response').content.kind # "text"
          THEN \* l.85 json.loads of a list: TypeError, not JSONDecodeError
               /\ Raise(Propagate("plan", "TypeError"))
               /\ inProgress' = inProgress \ {CurCall}
               /\ NoEmit
               /\ UNCHANGED <<sub_tasks, taskIdx, sub_task_results, plannerCalls,
                              executorCalls, nSnap>>
          ELSE LET parsed == JsonLoads(Last(response').content.text) IN
               IF ~parsed.ok
               THEN \* l.86-89
                    /\ Emit(FallbackEmission(response'))
                    /\ pc' = "fallback"
                    /\ error' = ""
                    /\ inProgress' = inProgress \ {CurCall}
                    /\ UNCHANGED <<sub_tasks, taskIdx, sub_task_results, plannerCalls,
                                   executorCalls, nSnap>>
               ELSE /\ sub_tasks' = parsed.val
                    /\ sub_task_results' = <<>>
                    /\ NoEmit
                    /\ IF ~Iterate(parsed.val).ok
                       THEN \* l.95 the value is not iterable
                            /\ Raise(Propagate("exec", "TypeError"))
                            /\ inProgress' = inProgress \ {CurCall}
                            /\ UNCHANGED <<taskIdx, plannerCalls, executorCalls, nSnap>>
                       ELSE Dispatch(Advance(Iterate(parsed.val).items, 1, <<>>), 1)
  /\ Handover

\* l.90: the consumer resumes the generator after the direct response.
FallbackReturn ==
  /\ pc = "fallback"
  /\ Solo
  /\ NoToolCall
  /\ requested
  /\ pc' = "done"
  /\ NoEmit
  /\ UNCHANGED <<messages, messages0, new_messages, sharing, response, chunk,
                 chunkBound, sub_tasks, taskIdx, sub_task_results, error,
                 plannerCalls, executorCalls, inProgress, nSnap, finals,
                 streamsMonotone, faulted>>
  /\ Handover

\* l.102-104, then the loop header again: the executor's stream for
\* sub-task taskIdx is exhausted.
ExecEnd ==
  /\ pc = "exec"
  /\ Solo
  /\ NoToolCall
  /\ requested
  /\ finals' = Append(finals, IF nSnap = 0 THEN <<>> ELSE chunk)
  /\ response' = response \o chunk
  /\ sub_task_results' = Append(sub_task_results, Last(response').content)
  /\ Dispatch(Advance(Iterate(sub_tasks).items, taskIdx + 1, sub_task_results'),
                 taskIdx + 1)
  /\ NoEmit
  /\ UNCHANGED <<messages, messages0, new_messages, sharing, chunk, chunkBound,
                    sub_tasks, streamsMonotone, faulted>>
  /\ Handover

\* l.113-114: the summarize stream is exhausted; the generator returns.
SumEnd ==
  /\ pc = "sum"
  /\ Solo
  /\ NoToolCall
  /\ requested
  /\ finals' = Append(finals, IF nSnap = 0 THEN <<>> ELSE chunk)
  /\ response' = response \o chunk
  /\ pc' = "done"
  /\ inProgress' = inProgress \ {CurCall}
  /\ NoEmit
  /\ UNCHANGED <<messages, messages0, new_messages, sharing, chunk, chunkBound,
                 sub_tasks, taskIdx, sub_task_results, error, plannerCalls,
                 executorCalls, nSnap, streamsMonotone, faulted>>
  /\ Handover

\* The consumer of the generator (the web UI of main.py l.88, or any
\* caller iterating run) asks for the next snapshot: the suspended
\* generator is resumed.
Request ==
  /\ ~requested
  /\ pc \notin {"done", "raised"}
  /\ requested' = TRUE
  /\ Solo
  /\ NoToolCall
  /\ NoEmit
  /\ UNCHANGED <<messages, messages0, new_messages, sharing, response, chunk,
                 chunkBound, sub_tasks, taskIdx, sub_task_results, pc, error,
                 plannerCalls, executorCalls, inProgress, nSnap, finals,
                 streamsMonotone, faulted>>

Next == \/ Request
        \/ Start
        \/ AgentYield
        \/ AgentRaise
        \/ PlanEnd
        \/ FallbackReturn
        \/ ExecEnd
        \/ SumEnd

Spec == Init /\ [][Next]_vars

\* ------------------------------------------------- two runs, interleaved
\* _run is a generator: between two requests of its consumer a run is
\* suspended, and another run of the same orchestrator may take steps.
Switch ==
  /\ TwoRuns
  /\ cur' = 3 - cur
  /\ other' = Frame
  /\ response' = FrameLocal(other.response, response)
  /\ sub_task_results' = FrameLocal(other.sub_task_results, sub_task_results)
  /\ messages' = other.messages
  /\ messages0' = other.messages0
  /\ new_messages' = other.new_messages
  /\ sharing' = other.sharing
  /\ chunk' = other.chunk
  /\ chunkBound' = other.chunkBound
  /\ sub_tasks' = other.sub_tasks
  /\ taskIdx' = other.taskIdx
  /\ pc' = other.pc
  /\ error' = other.error
  /\ plannerCalls' = other.plannerCalls
  /\ executorCalls' = other.executorCalls
  /\ inProgress' = other.inProgress
  /\ nSnap' = other.nSnap
  /\ emitCount' = other.emitCount
  /\ lastEmit' = other.lastEmit
  /\ prevEmit' = other.prevEmit
  /\ finals' = other.finals
  /\ streamsMonotone' = other.streamsMonotone
  /\ faulted' = other.faulted
  /\ requested' = other.requested
  /\ NoToolCall

TwoRunInit ==
  /\ messages = <<UserItems>>
  /\ messages0 = messages
  /\ new_messages = <<>>
  /\ sharing = "none"
  /\ response = <<>>
  /\ chunk = <<>>
  /\ chunkBound = FALSE
  /\ sub_tasks = PyNone
  /\ taskIdx = 0
  /\ sub_task_results = <<>>
  /\ pc = "start"
  /\ error = ""
  /\ plannerCalls = <<>>
  /\ executorCalls = <<>>
  /\ inProgress = {}
  /\ nSnap = 0
  /\ emitCount = 0
  /\ lastEmit = <<>>
  /\ prevEmit = <<>>
  /\ finals = <<>>
  /\ streamsMonotone = TRUE
  /\ faulted = FALSE
  /\ cur = 1
  /\ other = InitFrame(<<SystemMsg, UserItems>>)
  /\ tools = Construct({})
  /\ latest = NoCall
  /\ nCalls = 0
  /\ requested = FALSE

TwoRunNext == \/ Request
              \/ Start
              \/ AgentYield
              \/ AgentRaise
              \/ PlanEnd
              \/ FallbackReturn
              \/ ExecEnd
              \/ SumEnd
              \/ Switch

TwoRunSpec == TwoRunInit /\ [][TwoRunNext]_vars

\* The consumer keeps requesting snapshots (`for rsp in bot.run(...)`) and
\* every Agent stream ends: a step that can be taken is taken.
FairSpec == Spec /\ WF_vars(Next)

\* ------------------------------------------------------ DataTool calls
Invoke(t, params, ups, now, result) ==
  /\ latest' = [tool |-> t, params |-> params, ups |-> ups, clock |-> now,
                result |-> result]
  /\ nCalls' = nCalls + 1
  /\ tools' = [tools EXCEPT ![t] = AfterExecute(tools[t])]
  /\ UNCHANGED runVars

ExecHistoricalData ==
  /\ nCalls < MaxCalls
  /\ \E up \in Up :
       Invoke("get_historical_data", [ticker |-> "T"], [history |-> up], 0,
              HistoricalData(up))

ExecStockInfo ==
  /\ nCalls < MaxCalls
  /\ \E up \in UpInfo :
       Invoke("get_stock_info", [ticker |-> "T"], [info |-> up], 0, StockInfo(up))

ExecTechnicalAnalysis ==
  /\ nCalls < MaxCalls
  /\ \E up \in Up :
       Invoke("calculate_technical_indicators", [ticker |-> "T"], [history |-> up], 0,
              TechnicalAnalysis(up))

ExecFinancialStatements ==
  /\ nCalls < MaxCalls
  /\ \E up \in Up :
       Invoke("get_financial_statements", [ticker |-> "T"], [financials |-> up], 0,
              FinancialStatements(up))

ExecNews ==
  /\ nCalls < MaxCalls
  /\ \E yf \in Up, gn \in Up :
       Invoke("get_news", [ticker |-> "T"], [yfinance |-> yf, gnews |-> gn], 0,
              News(yf, gn))

ExecWebSearch ==
  /\ nCalls < MaxCalls
  /\ \E financial \in BOOLEAN, serp \in Up, ddg \in Up :
       Invoke("search_web_info", [financial |-> financial],
              [serpapi |-> serp, duckduckgo |-> ddg], 0,
              WebSearch(tools["search_web_info"], financial, serp, ddg))

ExecZHFinancialStatements ==
  /\ nCalls < MaxCalls
  /\ \E up \in UpPlain, now \in Clock :
       Invoke("get_zh_financial_statements", [code |-> "T"], [abstract |-> up], now,
              ZHFinancialStatements(up, now))

ExecZHHistoricalData ==
  /\ nCalls < MaxCalls
  /\ \E up \in Up :
       Invoke("get_zh_historical_data", [code |-> "T"], [hist |-> up], 0,
              ZHHistoricalData(up))

ExecZHMarket ==
  /\ nCalls < MaxCalls
  /\ \E data_type \in {"index", "sector", "top_list", "money_flow", "other"},
        up \in Up,
        now \in Clock :
       Invoke("get_zh_market_data", [data_type |-> data_type], [market |-> up], now,
              ZHMarket(data_type, up, now))

ExecZHNews ==
  /\ nCalls < MaxCalls
  /\ \E up \in UpPlain, now \in Clock :
       Invoke("get_stock_news", [symbol |-> "T"], [news |-> up], now, ZHNews(up, now))

ExecZHStockInfo ==
  /\ nCalls < MaxCalls
  /\ \E realtime \in UpPlain, info \in UpPlain, financial \in UpPlain, now \in Clock :
       Invoke("get_zh_stock_info", [code |-> "T"],
              [realtime |-> realtime, info |-> info, financial |-> financial], now,
              ZHStockInfo(realtime, info, financial, now))

ExecZHTechnicalAnalysis ==
  /\ nCalls < MaxCalls
  /\ \E up \in Up :
       Invoke("calculate_zh_technical_indicators", [code |-> "T"], [hist |-> up], 0,
              ZHTechnicalAnalysis(up))

\* The tools as a server holds them: constructed once, no run of the
\* orchestrator under way.
ToolInit ==
  /\ messages = <<UserItems>>
  /\ messages0 = messages
  /\ new_messages = <<>>
  /\ sharing = "none"
  /\ response = <<>>
  /\ chunk = <<>>
  /\ chunkBound = FALSE
  /\ sub_tasks = PyNone
  /\ taskIdx = 0
  /\ sub_task_results = <<>>
  /\ pc = "start"
  /\ error = ""
  /\ plannerCalls = <<>>
  /\ executorCalls = <<>>
  /\ inProgress = {}
  /\ nSnap = 0
  /\ emitCount = 0
  /\ lastEmit = <<>>
  /\ prevEmit = <<>>
  /\ finals = <<>>
  /\ streamsMonotone = TRUE
  /\ faulted = FALSE
  /\ cur = 1
  /\ other = NoFrame
  /\ \E env \in Envs : tools = Construct(env)
  /\ latest = NoCall
  /\ nCalls = 0
  /\ requested = FALSE

ToolNext == \/ ExecHistoricalData
            \/ ExecStockInfo
            \/ ExecTechnicalAnalysis
            \/ ExecFinancialStatements
            \/ ExecNews
            \/ ExecWebSearch
            \/ ExecZHFinancialStatements
            \/ ExecZHHistoricalData
            \/ ExecZHMarket
            \/ ExecZHNews
            \/ ExecZHStockInfo
            \/ ExecZHTechnicalAnalysis

ToolSpec == ToolInit /\ [][ToolNext]_vars

\* ================================================================= claims
\* The plan result: the last message of the planner's plan-phase output.
PlanCompleted == Len(finals) >= 1 /\ finals[1] # <<>>
PlanResult == Last(finals[1])
PlanIsText == PlanCompleted /\ PlanResult.content.kind = "text"
PlanNotJson == PlanIsText /\ ~JsonLoads(PlanResult.content.text).ok

\* C1: when every Agent stream grows by append only, each emission is a
\* prefix of the next one, on every path (the direct response included).
C1_PrefixMonotone ==
  (streamsMonotone /\ emitCount >= 2) => IsPrefix(prevEmit, lastEmit)

\* C2: a plan result that is not valid JSON ends the run with one
\* assistant message holding that text as the last emission, with no
\* executor call and no second planner call; the run returns right after.
C2_FallbackState ==
  PlanNotJson =>
    /\ pc \in {"fallback", "done"}
    /\ error = ""
    /\ lastEmit = <<Message("assistant", TextContent(PlanResult.content.text))>>
    /\ executorCalls = <<>>
    /\ Len(plannerCalls) = 1
    /\ inProgress = {}
C2_Fallback ==
  /\ []C2_FallbackState
  /\ [][pc = "fallback" =>
          /\ pc' \in {"fallback", "done"}
          /\ emitCount' = emitCount
          /\ lastEmit' = lastEmit]_vars
C2_Witness ==
  /\ pc = "done"
  /\ PlanNotJson
  /\ Len(finals[1]) = 2
  /\ emitCount >= 2
  /\ lastEmit = <<Asst(<<W("sorry")>>)>>

\* C3: for a parsed list of n objects with a task text, the executor is
\* called with t1..tn in list order, each call starting only after the
\* previous one's stream is exhausted, n times once the loop is through.
TaskOf(d) == (CHOOSE i \in 1..Len(d.items) : d.items[i].key = "task")
HasTask(d) == /\ d.t = "dict"
              /\ \E i \in 1..Len(d.items) : d.items[i].key = "task"
              /\ d.items[TaskOf(d)].val.t = "str"
WellFormedPlan == /\ sub_tasks.t = "list"
                  /\ \A i \in 1..Len(sub_tasks.items) : HasTask(sub_tasks.items[i])
TaskText(i) == LET d == sub_tasks.items[i] IN StrText(d.items[TaskOf(d)].val.s)
C3_ExecutorOrder ==
  (PlanCompleted /\ pc \notin {"plan", "fallback"} /\ WellFormedPlan) =>
    /\ Len(executorCalls) <= Len(sub_tasks.items)
    /\ \A i \in 1..Len(executorCalls) :
         executorCalls[i] = <<Message("user", TextContent(TaskText(i)))>>
    /\ pc \in {"sum", "done"} => Len(executorCalls) = Len(sub_tasks.items)
    /\ Cardinality({c \in inProgress : c.agent = "executor"}) <= 1
    /\ pc = "exec" =>
         /\ inProgress = {Call("executor", Len(executorCalls))}
         /\ Len(finals) = Len(executorCalls)
C3_Witness ==
  /\ pc = "done"
  /\ WellFormedPlan
  /\ Len(executorCalls) = 2
  /\ executorCalls[1] = <<Message("user", TextContent(<<W("B")>>))>>
  /\ executorCalls[2] = <<Message("user", TextContent(<<W("A")>>))>>

\* C4: every plan result that is not a JSON array of objects with a task
\* field (another JSON shape, an element without task, structured
\* content) takes the direct-response path: one assistant message, no
\* executor call, no exception.
AcceptedShape(v) ==
  /\ v.t = "list"
  /\ \A i \in 1..Len(v.items) :
       /\ v.items[i].t = "dict"
       /\ \E j \in 1..Len(v.items[i].items) : v.items[i].items[j].key = "task"
PlanAccepted ==
  /\ PlanIsText
  /\ JsonLoads(PlanResult.content.text).ok
  /\ AcceptedShape(JsonLoads(PlanResult.content.text).val)
C4_DeviationFallsBack ==
  (PlanCompleted /\ ~PlanAccepted) =>
    /\ error = ""
    /\ pc \in {"fallback", "done"}
    /\ executorCalls = <<>>
    /\ Len(plannerCalls) = 1
    /\ lastEmit = <<Message("assistant", PlanResult.content)>>

\* C5: at most one Agent call is in progress; the plan call is complete
\* before any executor call, every executor call is complete before the
\* summarize call, and the run never goes back to an earlier phase.
PhaseRank(p) ==
  CASE p = "start" -> 0
    [] p = "plan" -> 1
    [] p = "exec" -> 2
    [] p = "fallback" -> 2
    [] p = "sum" -> 3
    [] OTHER -> 4
C5_PhaseState ==
  /\ Cardinality(inProgress) <= 1
  /\ executorCalls # <<>> =>
       /\ Len(finals) >= 1
       /\ Call("planner", 1) \notin inProgress
  /\ Len(plannerCalls) >= 2 =>
       /\ Len(plannerCalls) = 2
       /\ Len(finals) >= 1 + Len(executorCalls)
       /\ \A c \in inProgress : c = Call("planner", 2)
  /\ pc \in {"plan", "exec", "sum"} <=> inProgress # {}
  /\ pc = "plan" => inProgress = {Call("planner", 1)}
C5_Phases ==
  /\ []C5_PhaseState
  /\ [][PhaseRank(pc') >= PhaseRank(pc)]_vars
C5_Witness ==
  /\ pc = "sum"
  /\ nSnap = 1
  /\ Len(executorCalls) = 2
  /\ inProgress = {Call("planner", 2)}

\* C6: an Agent call that raises ends the run with that exception: no
\* later Agent call is made and nothing more is emitted.
C6_FaultState == faulted => (pc = "raised" /\ error = "AgentError" /\ inProgress = {})
C6_Abort ==
  /\ []C6_FaultState
  /\ [][faulted => UNCHANGED <<emitCount, lastEmit, plannerCalls, executorCalls,
                               response, sub_task_results>>]_vars
C6_Witness ==
  /\ faulted
  /\ WellFormedPlan
  /\ Len(sub_tasks.items) = 2
  /\ Len(executorCalls) = 1
  /\ Len(plannerCalls) = 1
  /\ emitCount >= 2

\* C7: when the run completes through the summarize phase, the last
\* emission is the plan call's final output, then each executor call's
\* final output in order, then the summarize call's final output.
SuccessDone == pc = "done" /\ Len(plannerCalls) = 2
C7_FinalEmission == SuccessDone => lastEmit = Flatten(finals)

\* C8: the summarize call is made once, with one user message: the
\* summarize instruction followed by the entries of the results list in
\* order, separated by newlines; nothing of the conversation or the plan.
ResultsText ==
  Flatten([i \in 1..Len(sub_task_results) |->
             IF i = 1 THEN sub_task_results[i].text
             ELSE <<NL>> \o sub_task_results[i].text])
C8_SummaryState ==
  /\ Len(plannerCalls) <= 2
  /\ pc = "sum" => Len(plannerCalls) = 2
  /\ (pc = "done" /\ PlanCompleted /\ ~PlanNotJson) => Len(plannerCalls) = 2
  /\ Len(plannerCalls) = 2 =>
       /\ pc \in {"sum", "done", "raised"}
       /\ Len(sub_task_results) = Len(executorCalls)
       /\ plannerCalls[2] =
            <<Message("user", TextContent(SummaryInstruction \o ResultsText))>>
C8_Witness ==
  /\ pc = "done"
  /\ Len(plannerCalls) = 2
  /\ Len(sub_task_results) = 2
  /\ sub_task_results[1] # sub_task_results[2]
  /\ messages0 = <<SystemMsg, UserItems>>

\* C9: the executor's transcript for sub-task k is one user message whose
\* content is the task text of element k; it is a function of that
\* element alone.
ElementTaskText(k) ==
  LET d == Iterate(sub_tasks).items[k] IN StrText(d.items[TaskOf(d)].val.s)
C9_ExecutorInput ==
  \A k \in 1..Len(executorCalls) :
    /\ k <= Len(Iterate(sub_tasks).items)
    /\ HasTask(Iterate(sub_tasks).items[k])
    /\ executorCalls[k] = <<Message("user", TextContent(ElementTaskText(k)))>>
C9_Witness ==
  /\ Len(executorCalls) = 2
  /\ Len(finals) = 2
  /\ finals[2] = <<R1, R2>>
  /\ messages0 = <<SystemMsg, UserItems>>
  /\ executorCalls[2] = <<Message("user", TextContent(<<W("B")>>))>>

\* C10: the caller's list is never modified, however the run ends; the
\* instruction and the plan output go to the private copy only.
C10_CallerUntouched == messages = messages0
C10_Witness ==
  /\ pc \in {"done", "raised"}
  /\ Len(finals) >= 1
  /\ Len(new_messages) > Len(messages)
  /\ Last(new_messages[Len(messages)].content.items) = ContentItem(SplitInstruction)

\* C11: an executor answer that only reports a tool error does not end
\* the run: the remaining sub-tasks run in order, the summarize call gets
\* that answer among the results, and the last emission is not empty. The
\* run can still end early for another reason (an Agent call raising, a
\* structured answer that cannot be joined).
ErrorRecorded ==
  \E k \in 1..Len(sub_task_results) :
    /\ Len(finals) >= 1 + k
    /\ finals[1 + k] # <<>>
    /\ Last(finals[1 + k]) = ErrResult
OtherAbortCause ==
  \/ faulted
  \/ \E i \in 1..Len(sub_task_results) : sub_task_results[i].kind # "text"
SummaryText == plannerCalls[2][1].content.text
C11_ErrorState ==
  (PlanCompleted /\ WellFormedPlan /\ ErrorRecorded) =>
    /\ pc = "raised" => OtherAbortCause
    /\ pc = "exec" => Len(executorCalls) = Len(sub_task_results) + 1
    /\ pc \in {"sum", "done"} =>
         /\ Len(executorCalls) = Len(sub_tasks.items)
         /\ Len(plannerCalls) = 2
         /\ \E i \in 1..Len(SummaryText) : SummaryText[i] = W("error:no-data")
    /\ pc = "done" => lastEmit # <<>>
C11_ErrorPassThrough ==
  /\ []C11_ErrorState
  /\ (PlanCompleted /\ WellFormedPlan /\ ErrorRecorded)
        ~> (pc \in {"sum", "done"} \/ OtherAbortCause)
C11_Witness ==
  /\ pc = "done"
  /\ WellFormedPlan
  /\ Len(sub_tasks.items) = 2
  /\ finals[2] = <<ErrResult>>
  /\ finals[3] = <<R1>>
  /\ Last(lastEmit) = Sum1

\* C12: a run ends after finitely many emissions: after the one planner
\* call on the direct-response path, after 1 + n + 1 Agent calls when the
\* n-element list was executed and summarized; an ended run takes no step.
Ended == pc \in {"done", "raised"}
AgentCalls == Len(plannerCalls) + Len(executorCalls)
C12_EndState ==
  /\ emitCount <= MaxStream * AgentCalls + 1
  /\ (pc = "done" /\ PlanNotJson) =>
       /\ AgentCalls = 1
       /\ Len(plannerCalls) = 1
       /\ Len(finals) = 1
  /\ (pc = "done" /\ ~PlanNotJson) =>
       /\ Len(plannerCalls) = 2
       /\ Len(executorCalls) = Len(Iterate(sub_tasks).items)
       /\ AgentCalls = 1 + Len(Iterate(sub_tasks).items) + 1
       /\ Len(finals) = AgentCalls
       /\ emitCount <= MaxStream * AgentCalls
C12_Terminates ==
  /\ []C12_EndState
  /\ [][Ended => UNCHANGED vars]_vars
  /\ <>Ended
C12_Witness ==
  /\ pc = "done"
  /\ Len(executorCalls) = 2
  /\ Len(plannerCalls) = 2
  /\ emitCount = MaxStream * 4

Range(seq) == { seq[i] : i \in 1..Len(seq) }

\* C13: with two runs interleaved, a run's accumulator, results list and
\* emissions hold only what its own Agent calls produced, and no step of
\* one run changes the other run's accumulator or results list.
MessagesOf(run) ==
  UNION { Range(snap) : snap \in UNION { RunSnapshots(run, ph) : ph \in {"plan", "exec", "sum"} } }
OwnOnly(f, run) ==
  /\ \A m \in Range(f.response) \cup Range(f.lastEmit) \cup Range(f.prevEmit) :
       m \in MessagesOf(run)
  /\ \A c \in Range(f.sub_task_results) : \E m \in MessagesOf(run) : c = m.content
C13_OwnState == OwnOnly(Frame, cur) /\ OwnOnly(other, 3 - cur)
C13_PrivateAccumulator ==
  /\ []C13_OwnState
  /\ [][/\ cur' = cur =>
             /\ other'.response = other.response
             /\ other'.sub_task_results = other.sub_task_results
        /\ cur' # cur =>
             /\ other'.response = response
             /\ other'.sub_task_results = sub_task_results
             /\ response' = other.response
             /\ sub_task_results' = other.sub_task_results]_vars
C13_Witness ==
  /\ pc = "sum"
  /\ other.pc = "sum"
  /\ nSnap = 1
  /\ other.nSnap = 1
  /\ sub_task_results # <<>>
  /\ other.sub_task_results # <<>>
  /\ sub_task_results # other.sub_task_results

\* C14: with two runs in flight, the same Agent instance never has two
\* calls in progress.
C14_NoOverlap ==
  \A c \in inProgress : \A d \in other.inProgress :
    AgentInstance(cur, c.agent) # AgentInstance(3 - cur, d.agent)

\* C15: no execute raises to its caller, and a call whose every provider
\* call raised, or whose result cannot be made JSON-serializable, returns
\* a mapping with a top-level error key.
Called == latest.tool # "none"
EveryProvider(c, did) == \A src \in DOMAIN c.ups : c.ups[src] = did
IsError(result) == ~result.raised /\ "error" \in result.keys
C15_NeverRaises ==
  Called =>
    /\ ~latest.result.raised
    /\ EveryProvider(latest, "raises") => IsError(latest.result)
    /\ latest.result.serializable \/ IsError(latest.result)

\* C16: a call whose every provider returned an empty dataset returns a
\* mapping with a top-level error key.
C16_EmptyIsError ==
  (Called /\ EveryProvider(latest, "empty")) => IsError(latest.result)

\* C17: execute leaves every tool instance as its construction made it,
\* and a call with the parameters, provider responses and clock reading of
\* the call before it has the same result.
C17_InstanceUnchanged ==
  /\ [](\E env \in Envs : tools = Construct(env))
  /\ [][tools' = tools]_vars
  /\ [][(/\ Called
         /\ latest'.tool = latest.tool
         /\ latest'.params = latest.params
         /\ latest'.ups = latest.ups
         /\ latest'.clock = latest.clock) => latest'.result = latest.result]_vars
C17_Witness ==
  /\ nCalls = MaxCalls
  /\ latest.tool = "search_web_info"
  /\ Truthy(tools["search_web_info"].serpapi_api_key)
  /\ latest.result.source = "Google (via SerpAPI)"

\* C19: after the execute phase entry k of the results list is the
\* content of the last message of the final snapshot of the executor call
\* for sub-task k; when that call produced nothing, no earlier output is
\* recorded in its place, and the accumulator holds every call's final
\* snapshot once.
C19_ResultsRecorded ==
  /\ pc \in {"exec", "sum"} => response = Flatten(finals)
  /\ sub_task_results # <<>> => Len(finals) >= 1 + Len(sub_task_results)
  /\ \A k \in 1..Len(sub_task_results) :
       IF finals[1 + k] # <<>>
       THEN sub_task_results[k] = Last(finals[1 + k]).content
       ELSE \A j \in 1..k : \A m \in Range(finals[j]) : sub_task_results[k] # m.content

\* C20: an emission made during an Agent call is the final snapshots of
\* the completed calls, in order, followed by the call's current snapshot.
C20_EmissionIsAccumulator ==
  (pc \in {"plan", "exec", "sum"} /\ nSnap > 0) =>
    lastEmit = Flatten(finals) \o chunk

\* C21: the executor is never called with an empty task text.
C21_NoEmptyTask ==
  \A k \in 1..Len(executorCalls) :
    \A m \in Range(executorCalls[k]) :
      ~(m.content.kind = "text" /\ m.content.text = <<>>)

\* C22: once the run has started on a transcript that ends in a user
\* message, the planner has been called, first with the transcript plus
\* the instruction item at the end of the last message's content; nothing
\* else of the transcript differs.
EndsInUser == messages0 # <<>> /\ Last(messages0).role = "user"
WithInstruction(msgs) ==
  [i \in 1..Len(msgs) |->
     IF i < Len(msgs) THEN msgs[i]
     ELSE Message(msgs[i].role,
                  ListContent((IF msgs[i].content.kind = "list"
                               THEN msgs[i].content.items
                               ELSE <<ContentItem(msgs[i].content.text)>>)
                              \o <<ContentItem(SplitInstruction)>>))]
C22_PlannerInput ==
  (pc # "start" /\ EndsInUser) =>
    /\ plannerCalls # <<>>
    /\ plannerCalls[1] = WithInstruction(messages0)
    /\ pc \in {"plan", "fallback"} => Len(plannerCalls) = 1

\* C26: a plan that parses to the empty array is not answered directly:
\* no executor call is made, and the planner is called a second time with
\* one user message whose text is the summarize instruction alone.
EmptyPlan ==
  /\ PlanIsText
  /\ JsonLoads(PlanResult.content.text).ok
  /\ JsonLoads(PlanResult.content.text).val = PyList(<<>>)
C26_EmptyPlanSummarized ==
  EmptyPlan =>
    /\ pc \in {"sum", "done", "raised"}
    /\ pc = "raised" => faulted
    /\ executorCalls = <<>>
    /\ Len(plannerCalls) = 2
    /\ plannerCalls[2] = <<Message("user", TextContent(SummaryInstruction))>>
C26_Witness ==
  /\ EmptyPlan
  /\ pc = "done"
  /\ Len(finals) = 2
  /\ finals[2] = <<Sum1>>
  /\ lastEmit = <<Asst(Arr(<<>>)), Sum1>>

\* C27: a plan-phase stream that ends without a snapshot ends the run
\* without an exception and without an executor call.
PlanStreamEmpty == Len(finals) >= 1 /\ ~chunkBound /\ ~faulted
C27_EmptyPlanStream ==
  PlanStreamEmpty => (error = "" /\ executorCalls = <<>>)

\* C23: at most one Agent call is being consumed, every call made has
\* been consumed to the end of its stream, is being consumed, or raised;
\* every snapshot of a stream is emitted once, at the step that produces
\* it, and the only other emission is the one of the fallback path.
C23_StreamState ==
  /\ Cardinality(inProgress) <= 1
  /\ AgentCalls = Len(finals) + Cardinality(inProgress) + (IF faulted THEN 1 ELSE 0)
C23_OneEmissionPerSnapshot ==
  /\ []C23_StreamState
  /\ [][/\ nSnap' = nSnap + 1 =>
             /\ emitCount' = emitCount + 1
             /\ lastEmit' = response \o chunk'
             /\ prevEmit' = lastEmit
        /\ emitCount' # emitCount =>
             /\ emitCount' = emitCount + 1
             /\ nSnap' = nSnap + 1 \/ (pc = "plan" /\ pc' = "fallback")
        /\ (inProgress # {} /\ inProgress' # inProgress) =>
             (Len(finals') = Len(finals) + 1 \/ faulted')]_vars
C23_Witness ==
  /\ pc = "done"
  /\ error = ""
  /\ Len(executorCalls) = 1
  /\ Len(finals) = 3
  /\ emitCount = 5
  /\ lastEmit = <<Asst(Arr(TaskObj("A"))), R1, R2, ToolCall, Sum1>>

\* C24: an Agent call is started only while a request of the consumer is
\* pending; handing over a snapshot ends the request, so the next call
\* waits for a request made after the last snapshot; and without a
\* pending request the run does not move.
C24_Lazy ==
  /\ [](pc = "start" => AgentCalls = 0)
  /\ [][AgentCalls' > AgentCalls => requested]_vars
  /\ [][emitCount' > emitCount => ~requested']_vars
  /\ [][~requested => /\ AgentCalls' = AgentCalls
                      /\ emitCount' = emitCount
                      /\ pc' = pc
                      /\ nSnap' = nSnap
                      /\ response' = response]_vars
C24_Witness ==
  /\ ~requested
  /\ pc = "exec"
  /\ nSnap = 1
  /\ Len(executorCalls) = 1
  /\ Len(Iterate(sub_tasks).items) = 2
  /\ emitCount = 2

\* C25: in the A-share stock-info tool a failed upstream fetch (real-time
\* quote, company info or financial indicators) shows as a top-level error
\* key of the result; with all three failing the result is an error mapping
\* and not a success payload.
C25_FetchFailureVisible ==
  (Called /\ latest.tool = "get_zh_stock_info"
     /\ \E src \in DOMAIN latest.ups : latest.ups[src] = "raises")
    => IsError(latest.result)

\* C28: the news tool asks Yahoo Finance first and Google News only if Yahoo
\* gave no result object or an empty news list; it returns the no-source
\* error exactly when the last source asked gave no result object, the
\* no-news error exactly when that source gave an empty news list, and
\* otherwise a success payload whose news list is the last source's.
C28_NewsSources ==
  (Called /\ latest.tool = "get_news") =>
    LET yahoo == GetYfinanceNews(latest.ups.yfinance)
        google == GetGnewsFallback(latest.ups.gnews)
        again == yahoo = NoData \/ yahoo.items = "none"
        last == IF again THEN google ELSE yahoo
        result == latest.result
    IN  /\ result.consulted = IF again
                              THEN <<"_get_yfinance_news", "_get_gnews_fallback">>
                              ELSE <<"_get_yfinance_news">>
        /\ (IsError(result) /\ result.message = NoNewsSource) <=> last = NoData
        /\ (IsError(result) /\ result.message = NoNewsFound)
             <=> (last # NoData /\ last.items = "none")
        /\ (last # NoData /\ last.items # "none")
             => /\ ~result.raised
                /\ ~IsError(result)
                /\ "news" \in result.keys
                /\ result.source = last.source

\* C29: the web search tool calls SerpAPI only when an API key is
\* configured, calls DuckDuckGo exactly when SerpAPI was not called or gave
\* no result object, and returns the search-failure error exactly when
\* neither gave a result object; a SerpAPI result object with zero results
\* is returned as a success payload without DuckDuckGo being asked.
SerpKeyed ==
  \/ Truthy(tools["search_web_info"].serp_api_key)
  \/ Truthy(tools["search_web_info"].serpapi_api_key)
SerpAnswered == SerpKeyed /\ latest.ups.serpapi # "raises"
DuckAsked == \E k \in 1..Len(latest.result.consulted) :
               latest.result.consulted[k] = "_search_with_duckduckgo"
SerpAsked == \E k \in 1..Len(latest.result.consulted) :
               latest.result.consulted[k] = "_search_with_serpapi"
C29_SearchSources ==
  (Called /\ latest.tool = "search_web_info") =>
    /\ SerpAsked => SerpKeyed
    /\ DuckAsked <=> (~SerpAsked \/ ~SerpAnswered)
    /\ (IsError(latest.result) /\ latest.result.message = SearchFailed)
         <=> (~SerpAnswered /\ latest.ups.duckduckgo = "raises")
    /\ (SerpAnswered /\ latest.ups.serpapi = "empty")
         => /\ ~latest.result.raised
            /\ ~IsError(latest.result)
            /\ latest.result.source = "Google (via SerpAPI)"
            /\ ~DuckAsked
C29_Witness ==
  /\ Called
  /\ latest.tool = "search_web_info"
  /\ SerpAnswered
  /\ latest.ups.serpapi = "empty"
  /\ latest.result.consulted = <<"_search_with_serpapi">>
  /\ ~IsError(latest.result)

\* C30: the A-share market tool asked for index data (or for an unrecognised
\* data type), when the exchange summary has at least one usable row,
\* returns a data section holding the indices and their market summary, not
\* an error mapping.
C30_IndexData ==
  (Called /\ latest.tool = "get_zh_market_data"
     /\ latest.params.data_type \in {"index", "other"}
     /\ latest.ups.market = "good")
    => /\ ~IsError(latest.result)
       /\ "data" \in latest.result.keys
       /\ "data" \notin latest.result.nested

====
